---------------------------- MODULE Spec2Model ----------------------------
(***************************************************************************)
(* A model of rag-policy-qa (src/rag_system.py).                           *)
(*                                                                         *)
(*   SpecChunk  DocumentProcessor.chunk_text, one loop iteration per step, *)
(*              over character sequences (a character is a one-character   *)
(*              string).                                                   *)
(*   Spec       RAGPipeline: add_documents, retrieve, answer_question.     *)
(*   SpecScore  RAGPipeline._assess_confidence on drawn score lists.       *)
(*                                                                         *)
(* Distances are squared Euclidean distances between embeddings whose      *)
(* coordinates are multiples of 1/2, so a distance is a multiple of 1/4;   *)
(* the model counts distances in quarters (0.5 is 2, 1.0 is 4, 1.5 is 6).  *)
(***************************************************************************)
EXTENDS Integers, Sequences, FiniteSets, TLC

VARIABLES
    \* ---- DocumentProcessor.chunk_text
    text,           \* the argument of chunk_text
    chunk_size,     \* self.chunk_size
    overlap,        \* self.overlap
    sections,       \* re.split(page_pattern, text)
    i,              \* the loop index of "for i in range(1, len(sections), 2)"
    current_page,
    page_text,
    start,
    chunks,
    chunk_id,
    cpc,            \* position in chunk_text: "call", "page", "window", "done", "idle"
    iter,           \* iterations of the while loop on the current page
    pieces,         \* history: per chunk, the windows its text was built from
    \* ---- RAGPipeline
    documents,      \* self.documents
    index,          \* self.index: None, or the vectors stored in the flat index
    groq_client,    \* self.groq_client is set
    last,           \* the last call made on the pipeline and its outcome
    \* ---- Evaluator
    eval_results,   \* self.results
    \* ---- demo.main, the interactive loop
    dpc,            \* position in main: "prompt" (at input()), "exited", "idle"
    line,           \* what the last input() gave
    shown,          \* what the last pass of the loop printed
    prompts,        \* calls of input() so far
    calls,          \* calls of rag.answer_question made by the loop so far
    exit_code       \* the exit status once main has returned, -1 before

chunkVars == <<text, chunk_size, overlap, sections, i, current_page, page_text,
               start, chunks, chunk_id, cpc, iter, pieces>>
pipeVars == <<documents, index, groq_client, last>>
evalVars == <<eval_results>>
demoVars == <<dpc, line, shown, prompts, calls, exit_code>>
vars == <<chunkVars, pipeVars, evalVars, demoVars>>

Min(a, b) == IF a < b THEN a ELSE b
Max(a, b) == IF a > b THEN a ELSE b

\* ------------------------------------------------------------------ bounds

MaxPages == 2
MaxIter == 6
MaxDocs == 3
MaxTopK == 3
MaxScores == 2
MaxDistance == 9
MaxEvals == 2
MaxPrompts == 3

\* ------------------------------------------------------- Python sequences

\* s[a:b]
PySlice(s, a, b) ==
    LET n == Len(s)
        lo == IF a < 0 THEN Max(a + n, 0) ELSE Min(a, n)
        hi == IF b < 0 THEN Max(b + n, 0) ELSE Min(b, n)
    IN IF lo >= hi THEN << >> ELSE SubSeq(s, lo + 1, hi)

\* s[k] is defined (no IndexError)
PyInRange(s, k) == -Len(s) <= k /\ k < Len(s)

\* s[k], k in range
PyAt(s, k) == IF k < 0 THEN s[Len(s) + k + 1] ELSE s[k + 1]

\* ------------------------------------------------------------- characters

Digits == {"0", "1", "2", "3", "4", "5", "6", "7", "8", "9"}
DigitSeq == <<"0", "1", "2", "3", "4", "5", "6", "7", "8", "9">>
Alphabet == <<"a", "b", "c", "d", "e", "f", "g", "h", "i", "j", "k", "l", "m",
              "n", "o", "p", "q", "r", "s", "t", "u", "v", "w", "x", "y", "z">>
Letters == {Alphabet[k] : k \in 1..Len(Alphabet)} \cup {"P"}
\* \s
Whitespace == {" ", "\n", "\t"}
\* \w
WordChars == Letters \cup Digits \cup {"_"}
\* the punctuation clean_text keeps
KeptPunct == {".", ",", "!", "?", ";", ":", "(", ")", "-", "[", "]"}

DigitVal(c) == CHOOSE d \in 0..9 : DigitSeq[d + 1] = c

\* int(s) of a non-empty digit sequence
RECURSIVE ParseInt(_)
ParseInt(s) ==
    IF Len(s) = 0 THEN 0
    ELSE 10 * ParseInt(SubSeq(s, 1, Len(s) - 1)) + DigitVal(s[Len(s)])

\* ------------------------------------------------------------- clean_text

Dropped == ""
NotDropped(c) == c # Dropped

\* re.sub(r'\s+', ' ', text): every maximal run of whitespace becomes one space
CollapseWhitespace(t) ==
    SelectSeq([k \in 1..Len(t) |->
                  IF t[k] \notin Whitespace THEN t[k]
                  ELSE IF k = 1 \/ t[k - 1] \notin Whitespace THEN " "
                  ELSE Dropped],
              NotDropped)

KeptChar(c) == c \in WordChars \cup Whitespace \cup KeptPunct

\* re.sub(r'[^\w\s.,!?;:()\-\[\]]', '', text)
RemoveSpecial(t) == SelectSeq(t, KeptChar)

\* str.strip()
Strip(t) ==
    LET solid == {k \in 1..Len(t) : t[k] \notin Whitespace}
    IN IF solid = {} THEN << >>
       ELSE SubSeq(t, CHOOSE k \in solid : \A m \in solid : k <= m,
                      CHOOSE k \in solid : \A m \in solid : k >= m)

clean_text(t) == Strip(RemoveSpecial(CollapseWhitespace(t)))

\* ------------------------------------------- re.split(r'\[Page (\d+)\]', text)

MarkerHead == <<"[", "P", "a", "g", "e", " ">>

\* the length of the run of digits of t that starts at position p
DigitRun(t, p) ==
    LET stops == {k \in p..(Len(t) + 1) : k > Len(t) \/ t[k] \notin Digits}
    IN (CHOOSE k \in stops : \A m \in stops : k <= m) - p

\* the pattern matches at position p: "[Page ", one or more digits, "]"
MatchAt(t, p) ==
    /\ p + Len(MarkerHead) <= Len(t)
    /\ SubSeq(t, p, p + Len(MarkerHead) - 1) = MarkerHead
    /\ LET d == DigitRun(t, p + Len(MarkerHead))
       IN /\ d >= 1
          /\ p + Len(MarkerHead) + d <= Len(t)
          /\ t[p + Len(MarkerHead) + d] = "]"

MatchLen(t, p) == Len(MarkerHead) + DigitRun(t, p + Len(MarkerHead)) + 1

\* The matches of the pattern never overlap (a match holds one "[", its first
\* character), so the split is at every position where the pattern matches.
\* With one capture group the result alternates text, digits, text, ...
re_split(t) ==
    LET at == {p \in 1..Len(t) : MatchAt(t, p)}
        RECURSIVE from(_)
        from(s) ==
            LET later == {p \in at : p >= s}
            IN IF later = {} THEN <<SubSeq(t, s, Len(t))>>
               ELSE LET p == CHOOSE q \in later : \A m \in later : q <= m
                        n == MatchLen(t, p)
                    IN <<SubSeq(t, s, p - 1),
                         SubSeq(t, p + Len(MarkerHead), p + n - 2)>>
                       \o from(p + n)
    IN from(1)


\* ------------------------------------------------ inputs of chunk_text

\* n word characters; the salt makes the characters of different pages differ
Plain(n, salt) == [k \in 1..n |-> Alphabet[((k + salt) % 26) + 1]]

\* Extracted text as a PDF page yields it: line breaks, runs of whitespace,
\* characters clean_text removes and punctuation it keeps.
Noisy(n, salt) ==
    [k \in 1..n |->
        CASE k = 1 \/ k = n -> "\n"
          [] k % 11 = 3 -> " "
          [] k % 11 = 4 -> "\n"
          [] k % 11 = 7 -> "$"
          [] k % 11 = 9 -> ","
          [] k % 17 = 5 -> "\t"
          [] k % 17 = 6 -> "#"
          [] k % 17 = 8 -> " "
          [] OTHER -> Alphabet[((k + salt) % 26) + 1]]

IntToDigits(n) ==
    IF n < 10 THEN <<DigitSeq[n + 1]>>
    ELSE <<DigitSeq[(n \div 10) + 1], DigitSeq[(n % 10) + 1]>>

\* the marker load_pdf writes before page n
Marker(n) == MarkerHead \o IntToDigits(n) \o <<"]">>

\* The pages a text is built from: the marker's number, the length of the
\* extracted text and whether it is Noisy.
PageKinds ==
    { [num |-> 1,  len |-> 10,  noisy |-> FALSE],
      [num |-> 2,  len |-> 40,  noisy |-> FALSE],
      [num |-> 2,  len |-> 70,  noisy |-> TRUE],
      [num |-> 3,  len |-> 130, noisy |-> FALSE],
      [num |-> 12, len |-> 120, noisy |-> TRUE],
      [num |-> 1,  len |-> 0,   noisy |-> FALSE],
      [num |-> 3,  len |-> 50,  noisy |-> FALSE] }

PageBody(kind, salt) ==
    IF kind.noisy THEN Noisy(kind.len, salt) ELSE Plain(kind.len, salt)

\* the text before the first marker: none, a line break, a preface
Prefaces == { << >>, <<"\n">>, Plain(12, 3), <<" ">> \o Plain(55, 5) \o <<"!", "\n">> }

RECURSIVE PagesText(_, _)
PagesText(kinds, k) ==
    IF k > Len(kinds) THEN << >>
    ELSE <<"\n">> \o Marker(kinds[k].num) \o PageBody(kinds[k], 7 * k)
         \o PagesText(kinds, k + 1)

PageLists == UNION { [1..n -> PageKinds] : n \in 0..MaxPages }

Texts == { pre \o PagesText(kinds, 1) : pre \in Prefaces, kinds \in PageLists }

\* (chunk_size, overlap) as given to DocumentProcessor.__init__, which checks nothing
Params == { <<60, 20>>, <<60, 0>>, <<80, 30>>, <<60, 60>>, <<50, 60>> }

\* a chunk shorter than this is appended to the previous chunk
MinChunkLen == 50

Source == "policy.pdf"

\* ------------------------------------------------ DocumentProcessor.chunk_text

Document(t, id, page, src) ==
    [text |-> t, chunk_id |-> id, page_num |-> page, source |-> src]

\* "if len(chunk_text) < 50 and chunks"
IsShortTail(ct, cs) == Len(ct) < MinChunkLen /\ cs # << >>

\* chunks[-1].text += " " + chunk_text
MergeTail(cs, ct) == [cs EXCEPT ![Len(cs)].text = @ \o <<" ">> \o ct]

\* chunks.append(Document(...))
AppendChunk(cs, ct, id, page) == Append(cs, Document(ct, id, page, Source))

\* a merge that uses up an id
NextChunkId_EveryWindow(id, merged) == id + 1

\* chunk_id after one window
NextChunkId(id, merged) == IF merged THEN id ELSE id + 1

\* a window that advances by its whole size
NextStart_NoOverlap(s, size, ov) == s + size

\* start += self.chunk_size - self.overlap
\* a window that always moves on: an overlap that is not under the chunk size
\* is left out
NextStart_AlwaysAdvances(s, size, ov) == s + (IF size > ov THEN size - ov ELSE size)

NextStart(s, size, ov) == s + size - ov

\* the page number of a section pair
PageOf(secs, k) == ParseInt(PyAt(secs, k))

\* the cleaned text of a section pair
PageTextOf(secs, k) ==
    clean_text(IF k + 1 < Len(secs) THEN PyAt(secs, k + 1) ELSE << >>)

ChunkIdle ==
    /\ text = << >> /\ chunk_size = 0 /\ overlap = 0 /\ sections = << >>
    /\ i = 0 /\ current_page = 0 /\ page_text = << >> /\ start = 0
    /\ chunks = << >> /\ chunk_id = 0 /\ cpc = "idle" /\ iter = 0
    /\ pieces = << >>

ChunkInit ==
    /\ text \in Texts
    /\ \E p \in Params : chunk_size = p[1] /\ overlap = p[2]
    /\ sections = << >> /\ i = 0 /\ current_page = 0 /\ page_text = << >>
    /\ start = 0 /\ chunks = << >> /\ chunk_id = 0 /\ cpc = "call" /\ iter = 0
    /\ pieces = << >>

\* lines 92-99: the split, and the loop's first index
ChunkTextCall ==
    /\ cpc = "call"
    /\ sections' = re_split(text)
    /\ chunks' = << >>
    /\ chunk_id' = 0
    /\ current_page' = 1
    /\ i' = 1
    /\ cpc' = "page"
    /\ UNCHANGED <<text, chunk_size, overlap, page_text, start, iter, pieces, pipeVars, evalVars, demoVars>>

\* lines 100-109: the next (page number, page text) pair
ChunkTextPage ==
    /\ cpc = "page"
    /\ i < Len(sections)
    /\ current_page' = PageOf(sections, i)
    /\ page_text' = PageTextOf(sections, i)
    /\ start' = 0
    /\ iter' = 0
    /\ cpc' = "window"
    /\ UNCHANGED <<text, chunk_size, overlap, sections, i, chunks, chunk_id, pieces, pipeVars, evalVars, demoVars>>

\* lines 110-126: one iteration of the while loop
ChunkTextWindow ==
    /\ cpc = "window"
    /\ start < Len(page_text)
    /\ iter < MaxIter
    /\ LET end == start + chunk_size
           ct == PySlice(page_text, start, end)
           merged == IsShortTail(ct, chunks)
           piece == [sec |-> i, start |-> start, len |-> Len(ct)]
       IN /\ chunks' = IF merged THEN MergeTail(chunks, ct)
                       ELSE AppendChunk(chunks, ct, chunk_id, current_page)
          /\ chunk_id' = NextChunkId(chunk_id, merged)
          /\ pieces' = IF merged
                       THEN [pieces EXCEPT ![Len(pieces)] = Append(@, piece)]
                       ELSE Append(pieces, <<piece>>)
    /\ start' = NextStart(start, chunk_size, overlap)
    /\ iter' = iter + 1
    /\ UNCHANGED <<text, chunk_size, overlap, sections, i, current_page, page_text, cpc, pipeVars, evalVars, demoVars>>

\* line 110 false: on to the next pair
ChunkTextPageEnd ==
    /\ cpc = "window"
    /\ ~(start < Len(page_text))
    /\ i' = i + 2
    /\ cpc' = "page"
    /\ UNCHANGED <<text, chunk_size, overlap, sections, current_page, page_text, start,
                   chunks, chunk_id, iter, pieces, pipeVars, evalVars, demoVars>>

\* line 128: return chunks
ChunkTextReturn ==
    /\ cpc = "page"
    /\ ~(i < Len(sections))
    /\ cpc' = "done"
    /\ UNCHANGED <<text, chunk_size, overlap, sections, i, current_page, page_text, start,
                   chunks, chunk_id, iter, pieces, pipeVars, evalVars, demoVars>>

ChunkNext ==
    \/ ChunkTextCall
    \/ ChunkTextPage
    \/ ChunkTextWindow
    \/ ChunkTextPageEnd
    \/ ChunkTextReturn

\* ------------------------------------------------ chunk_text: what was built

ChunkDone == cpc = "done"

\* the index pairs (page number, page text) of sections, as the loop visits them
PagePairs == {k \in 1..(Len(sections) - 1) : k % 2 = 1}

\* where window j of chunk c starts in the chunk's text (0-based): the windows
\* before it, each followed by the joining space
RECURSIVE PieceOffset(_, _)
PieceOffset(c, j) ==
    IF j = 1 THEN 0 ELSE PieceOffset(c, j - 1) + pieces[c][j - 1].len + 1

\* window j of chunk c, read from the chunk's text
PieceText(c, j) ==
    PySlice(chunks[c].text, PieceOffset(c, j), PieceOffset(c, j) + pieces[c][j].len)

\* every window, in chunk order, with the text the chunk holds for it
RECURSIVE WindowsFrom(_, _)
WindowsFrom(c, j) ==
    IF c > Len(chunks) THEN << >>
    ELSE IF j > Len(pieces[c]) THEN WindowsFrom(c + 1, 1)
    ELSE <<[sec |-> pieces[c][j].sec, start |-> pieces[c][j].start,
            len |-> pieces[c][j].len, text |-> PieceText(c, j)]>>
         \o WindowsFrom(c, j + 1)

Windows == WindowsFrom(1, 1)

\* the windows of one page
WindowsOf(ws, k) == SelectSeq(ws, LAMBDA w : w.sec = k)

\* the number of characters of chunk c that came from page number p
RECURSIVE ShareFrom(_, _, _)
ShareFrom(c, p, j) ==
    IF j > Len(pieces[c]) THEN 0
    ELSE (IF PageOf(sections, pieces[c][j].sec) = p THEN pieces[c][j].len ELSE 0)
         + ShareFrom(c, p, j + 1)

Share(c, p) == ShareFrom(c, p, 1)

PageNumbers == {PageOf(sections, k) : k \in PagePairs}

\* ---------------------------------------------------------------- C6
\* C6: text that no [Page N] marker precedes (the text before the first marker,
\* or the whole text when it holds no marker) is cleaned and chunked into
\* Documents with page_num = 1: when that text is not empty once cleaned, the
\* returned list starts with its first window, on page 1.
C6_PrefaceIsPageOne ==
    ChunkDone /\ overlap < chunk_size =>
        LET pre == clean_text(PyAt(sections, 0))
        IN pre # << >> =>
              /\ chunks # << >>
              /\ chunks[1].page_num = 1
              /\ PySlice(chunks[1].text, 0, Min(Len(pre), chunk_size))
                    = PySlice(pre, 0, chunk_size)

\* ---------------------------------------------------------------- C7
\* C7: the page_num of every returned chunk is the page that the largest share
\* of the chunk's final text came from, short-tail merges included.
C7_PageNumIsBulkPage ==
    ChunkDone /\ overlap < chunk_size =>
        \A c \in 1..Len(chunks) : \A p \in PageNumbers :
            Share(c, chunks[c].page_num) >= Share(c, p)

\* ---------------------------------------------------------------- C8
\* C8: the chunk_id values of the returned list are 0, 1, ..., n-1 in list
\* order: no gap, no reset at a page boundary, no id used up by a merge.
C8_ChunkIdsContiguous ==
    ChunkDone => \A c \in 1..Len(chunks) : chunks[c].chunk_id = c - 1

\* a return of three or more chunks over several pages, one of them extended
\* by a merged short tail
C8_Witness ==
    /\ ChunkDone
    /\ Len(chunks) >= 3
    /\ \E c, d \in 1..Len(chunks) : chunks[c].page_num # chunks[d].page_num
    /\ \E c \in 1..(Len(chunks) - 1) : Len(pieces[c]) >= 2

\* ---------------------------------------------------------------- C9

Step == chunk_size - overlap

\* ceil(n / d)
CeilDiv(n, d) == (n + d - 1) \div d

\* Window k (from 0) of a page is the cleaned page text from offset k * Step
\* for at most chunk_size characters, and the windows reach the page's end.
WindowsArePageSlices(ws, k) ==
    LET cleaned == PageTextOf(sections, k)
        w == WindowsOf(ws, k)
    IN /\ Len(w) = CeilDiv(Len(cleaned), Step)
       /\ \A n \in 1..Len(w) :
             /\ w[n].start = (n - 1) * Step
             /\ w[n].text = PySlice(cleaned, (n - 1) * Step, (n - 1) * Step + chunk_size)

\* the windows come in page order
WindowsInPageOrder(ws) ==
    \A m, n \in 1..Len(ws) : m < n => ws[m].sec <= ws[n].sec

\* a chunk's text is its windows joined by single spaces
ChunkIsJoinedWindows(c) ==
    /\ Len(chunks[c].text) = PieceOffset(c, Len(pieces[c])) + pieces[c][Len(pieces[c])].len
    /\ \A j \in 2..Len(pieces[c]) : PyAt(chunks[c].text, PieceOffset(c, j) - 1) = " "

\* the characters windows n and n + 1 of a page both hold
SharedChars(w, n) == w[n].start + w[n].len - w[n + 1].start

\* the page's windows with the characters each shares with its predecessor removed
RECURSIVE Rebuild(_, _)
Rebuild(w, n) ==
    IF n > Len(w) THEN << >>
    ELSE PySlice(w[n].text, IF n = 1 THEN 0 ELSE SharedChars(w, n - 1), w[n].len)
         \o Rebuild(w, n + 1)

\* Coverage: every page is covered by its windows, completely and in order, and
\* taking the joining spaces and the shared characters out gives the cleaned
\* pages back.
ChunksCoverPages ==
    LET ws == Windows
    IN /\ WindowsInPageOrder(ws)
       /\ \A c \in 1..Len(chunks) : ChunkIsJoinedWindows(c)
       /\ \A k \in PagePairs :
             /\ WindowsArePageSlices(ws, k)
             /\ Rebuild(WindowsOf(ws, k), 1) = PageTextOf(sections, k)

\* C9 as stated: coverage, and consecutive windows of a page share exactly
\* `overlap` characters.
C9_WindowsShareOverlap ==
    ChunkDone /\ overlap < chunk_size =>
        /\ ChunksCoverPages
        /\ \A k \in PagePairs :
              LET w == WindowsOf(Windows, k)
              IN \A n \in 1..(Len(w) - 1) :
                    /\ SharedChars(w, n) = overlap
                    /\ PySlice(w[n].text, w[n].len - overlap, w[n].len)
                          = PySlice(w[n + 1].text, 0, overlap)

\* C9 amended: coverage, and consecutive windows of a page share exactly
\* `overlap` characters when the later window holds that many, and otherwise
\* the whole of the later window (a tail shorter than `overlap`).
C9_WindowsCoverPages ==
    ChunkDone /\ overlap < chunk_size =>
        /\ ChunksCoverPages
        /\ \A k \in PagePairs :
              LET w == WindowsOf(Windows, k)
              IN \A n \in 1..(Len(w) - 1) :
                    LET sh == Min(overlap, w[n + 1].len)
                    IN /\ SharedChars(w, n) = sh
                       /\ PySlice(w[n].text, w[n].len - sh, w[n].len)
                             = PySlice(w[n + 1].text, 0, sh)

\* a return over two pages with text, one of three or more overlapping windows,
\* and a short tail merged into the chunk before it
C9_Witness ==
    /\ ChunkDone /\ 0 < overlap /\ overlap < chunk_size
    /\ \E k \in PagePairs : Len(WindowsOf(Windows, k)) >= 3
    /\ Cardinality({k \in PagePairs : PageTextOf(sections, k) # << >>}) >= 2
    /\ \E c \in 1..Len(chunks) : Len(pieces[c]) >= 2

\* ------------------------------------------------ embeddings and the flat index

\* The texts of the corpus and the queries, with the vector the embedding model
\* gives each (coordinates in halves).
Embedding ==
    [ privacy  |-> <<2, 0, 0>>,
      shipping |-> <<1, 1, 0>>,
      refund   |-> <<1, 0, 0>>,
      warranty |-> <<2, 1, 1>>,
      returns  |-> <<2, 2, 0>>,
      q_refund  |-> <<0, 0, 0>>,
      q_tracking |-> <<0, 1, 1>>,
      q_weather |-> <<0, 2, 0>> ]

\* embedding_model.encode of one text
Encode(t) == Embedding[t]

\* embedding_model.encode(texts)
EncodeAll(docs) == [j \in 1..Len(docs) |-> Encode(docs[j].text)]

\* the squared Euclidean distance of two vectors, in quarters
L2(u, v) == (u[1] - v[1]) * (u[1] - v[1]) + (u[2] - v[2]) * (u[2] - v[2])
            + (u[3] - v[3]) * (u[3] - v[3])

\* the distance the flat index reports in a slot it could not fill (FLT_MAX)
UnfilledDistance == 1000000

\* the label the flat index reports in a slot it could not fill
UnfilledLabel == -1

\* the slots of a search result from the distances d of the stored vectors:
\* nearest first, equal distances by position
RankedSlots(d, k) ==
    LET n == Len(d)
        before(m, j) == d[m] < d[j] \/ (d[m] = d[j] /\ m < j)
        at(r) == CHOOSE j \in 1..n : Cardinality({m \in 1..n : before(m, j)}) = r - 1
    IN [r \in 1..k |->
           IF r <= n THEN [idx |-> at(r) - 1, distance |-> d[at(r)]]
           ELSE [idx |-> UnfilledLabel, distance |-> UnfilledDistance]]

\* IndexFlatL2.search(query, k): the k nearest stored vectors as (position
\* from 0, distance); the slots beyond the stored vectors are unfilled.
IndexSearch(vectors, qv, k) ==
    RankedSlots([j \in 1..Len(vectors) |-> L2(vectors[j], qv)], k)

\* self.index = None
NoneIndex == [none |-> TRUE, vectors |-> << >>]

\* faiss.IndexFlatL2(dimension) after index.add(embeddings)
FlatIndex(vectors) == [none |-> FALSE, vectors |-> vectors]

\* ------------------------------------------------ inputs of the pipeline

Range(seq) == { seq[j] : j \in 1..Len(seq) }

BaseDocs ==
    << Document("privacy", 0, 1, Source),
       Document("shipping", 1, 1, Source),
       Document("refund", 2, 2, Source),
       Document("warranty", 3, 3, Source),
       Document("returns", 4, 3, Source) >>

\* the lists given to add_documents: the empty list and the first n of BaseDocs
DocLists == { SubSeq(BaseDocs, 1, n) : n \in 0..MaxDocs }

Queries == {"q_refund", "q_tracking", "q_weather"}

\* the chunks given to a generation method directly: MaxDocs chunks of BaseDocs
\* whose page numbers differ
ContextDocs == { BaseDocs[j] : j \in 2..Min(MaxDocs + 1, Len(BaseDocs)) }

\* the ranked chunk lists: every list of at most MaxTopK different chunks of
\* ContextDocs, in any order
ContextLists ==
    UNION { { l \in [1..n -> ContextDocs] : \A a, b \in 1..n : l[a] = l[b] => a = b }
            : n \in 0..MaxTopK }

TopKs == 1..MaxTopK

PromptVersions == {1, 2, 3}

\* what chat.completions.create does: it returns a text or raises
Completions ==
    { [ok |-> TRUE,  text |-> "Refunds are accepted within 30 days (Excerpt 1, Page 1)"],
      [ok |-> FALSE, text |-> "Connection error."] }

\* nothing read yet
NoInput == [kind |-> "none", chars |-> << >>]

\* ------------------------------------------------ RAGPipeline

HighBelow == 2
MediumBelow == 4
GateAbove == 6

NoKeyAnswer == "Error: GROQ_API_KEY not set. Cannot generate answer."
GenerationErrorPrefix == "Error generating answer: "
CannedAnswer == "I couldn't find relevant information in the policy documents to answer this question. This topic may not be covered in the available policies."

\* no call of chat.completions.create
NoCompletion == [ok |-> TRUE, text |-> ""]

NoResponse ==
    [query |-> "", answer |-> "", context |-> << >>, confidence |-> "",
     retrieval_scores |-> << >>]

NoCall ==
    [op |-> "idle", raised |-> FALSE, error |-> "", query |-> "", top_k |-> 0,
     docs |-> << >>, hits |-> << >>, results |-> << >>, scores |-> << >>,
     response |-> NoResponse, gen_v1 |-> 0, gen_v2 |-> 0, api_calls |-> 0,
     old_documents |-> << >>, old_index |-> NoneIndex,
     prompt_version |-> 0, prompt |-> << >>, completion |-> NoCompletion]

\* a best score of exactly 0.5 taken for high
assess_confidence_Inclusive(scores) ==
    IF scores = << >> THEN "low"
    ELSE IF scores[1] <= HighBelow THEN "high"
    ELSE IF scores[1] < MediumBelow THEN "medium"
    ELSE "low"

\* lines 354-365
assess_confidence(scores) ==
    IF scores = << >> THEN "low"
    ELSE IF scores[1] < HighBelow THEN "high"
    ELSE IF scores[1] < MediumBelow THEN "medium"
    ELSE "low"

\* lines 155-168. documents is assigned first; encode may raise, and the
\* embeddings of an empty list have no second dimension (line 164).
AddOutcome(docs, encodeOk) ==
    IF ~encodeOk THEN [raised |-> TRUE, error |-> "EncodeError", index |-> index]
    ELSE IF docs = << >> THEN [raised |-> TRUE, error |-> "IndexError", index |-> index]
    ELSE [raised |-> FALSE, error |-> "", index |-> FlatIndex(EncodeAll(docs))]

add_documents(docs, encodeOk) ==
    LET out == AddOutcome(docs, encodeOk)
    IN /\ documents' = docs
       /\ index' = out.index
       /\ last' = [NoCall EXCEPT !.op = "add_documents", !.raised = out.raised,
                                 !.error = out.error, !.docs = docs,
                                 !.old_documents = documents, !.old_index = index]
       /\ UNCHANGED <<groq_client, chunkVars, evalVars>>

\* "if idx < len(self.documents)"
HitKept(docs, hit) == hit.idx < Len(docs)

\* lines 188-191: the kept hits, each with the document at its position
ResultsOf(docs, hits) ==
    LET kept == SelectSeq(hits, LAMBDA h : HitKept(docs, h))
    IN [j \in 1..Len(kept) |->
           [doc |-> PyAt(docs, kept[j].idx), distance |-> kept[j].distance]]

\* lines 188-193: documents[idx] of a kept hit raises IndexError when idx is
\* out of range
ResultsOutcome(docs, hits) ==
    IF \E r \in 1..Len(hits) : HitKept(docs, hits[r]) /\ ~PyInRange(docs, hits[r].idx)
    THEN [raised |-> TRUE, error |-> "IndexError", hits |-> hits, results |-> << >>]
    ELSE [raised |-> FALSE, error |-> "", hits |-> hits, results |-> ResultsOf(docs, hits)]

\* lines 181-193
RetrieveOutcome(query, top_k, encodeOk) ==
    IF ~encodeOk
    THEN [raised |-> TRUE, error |-> "EncodeError", hits |-> << >>, results |-> << >>]
    ELSE IF index.none
    THEN [raised |-> TRUE, error |-> "AttributeError", hits |-> << >>, results |-> << >>]
    ELSE ResultsOutcome(documents, IndexSearch(index.vectors, Encode(query), top_k))

retrieve(query, top_k, encodeOk) ==
    LET out == RetrieveOutcome(query, top_k, encodeOk)
    IN /\ last' = [NoCall EXCEPT !.op = "retrieve", !.raised = out.raised,
                                 !.error = out.error, !.query = query, !.top_k = top_k,
                                 !.hits = out.hits, !.results = out.results]
       /\ UNCHANGED <<documents, index, groq_client, chunkVars, evalVars>>

\* a gate that checks only for an empty retrieval
Inadmissible_EmptyOnly(retrieved) == retrieved = << >>

\* "if not retrieved_docs or retrieved_docs[0][1] > 1.5"
Inadmissible(retrieved) == retrieved = << >> \/ retrieved[1].distance > GateAbove

\* a generator that calls the client without checking that it is set: the
\* call on None raises inside the try and is reported as a generation error
Generate_Unguarded(completion) ==
    IF ~groq_client
    THEN [answer |-> GenerationErrorPrefix \o "'NoneType' object has no attribute 'chat'",
          api_calls |-> 1]
    ELSE IF completion.ok THEN [answer |-> completion.text, api_calls |-> 1]
    ELSE [answer |-> GenerationErrorPrefix \o completion.text, api_calls |-> 1]

\* lines 204-205 and 227-236 (v1), 249-250 and 292-301 (v2): the answer, and the
\* calls made to chat.completions.create
Generate(completion) ==
    IF ~groq_client THEN [answer |-> NoKeyAnswer, api_calls |-> 0]
    ELSE IF completion.ok THEN [answer |-> completion.text, api_calls |-> 1]
    ELSE [answer |-> GenerationErrorPrefix \o completion.text, api_calls |-> 1]

\* lines 341-349
ContextOf(results) ==
    [j \in 1..Len(results) |->
        [text |-> results[j].doc.text, page |-> results[j].doc.page_num,
         chunk_id |-> results[j].doc.chunk_id, relevance_score |-> results[j].distance]]

ScoresOf(results) == [j \in 1..Len(results) |-> results[j].distance]

\* "\n\n".join(parts): a prompt is kept as the sequence of the pieces it is
\* written from (the literal parts of the f-string and the formatted values);
\* the text is their concatenation.
RECURSIVE JoinParts(_, _, _)
JoinParts(parts, sep, k) ==
    IF k > Len(parts) THEN << >>
    ELSE (IF k = 1 THEN << >> ELSE <<sep>>) \o parts[k] \o JoinParts(parts, sep, k + 1)

\* an excerpt of template 1 that leaves the page out
ExcerptV1_NoPage(k, doc) == <<"[Excerpt ", ToString(k), "]:\n", doc.text>>

\* line 209: f"[Excerpt {i+1} from Page {doc.page_num}]:\n{doc.text}", k = i + 1
ExcerptV1(k, doc) ==
    <<"[Excerpt ", ToString(k), " from Page ", ToString(doc.page_num), "]:\n", doc.text>>

\* line 254: f"<excerpt id=\"{i+1}\" page=\"{doc.page_num}\">\n{doc.text}\n</excerpt>"
ExcerptV2(k, doc) ==
    <<"<excerpt id=\"", ToString(k), "\" page=\"", ToString(doc.page_num), "\">\n",
      doc.text, "\n</excerpt>">>

\* lines 208-211
ContextV1(docs) == JoinParts([k \in 1..Len(docs) |-> ExcerptV1(k, docs[k])], "\n\n", 1)

\* lines 253-256
ContextV2(docs) == JoinParts([k \in 1..Len(docs) |-> ExcerptV2(k, docs[k])], "\n\n", 1)

\* lines 213-225
PromptV1(query, docs) ==
    <<"You are a helpful assistant answering questions about company policies.\n\nContext from policy documents:\n">>
    \o ContextV1(docs)
    \o <<"\n\nQuestion: ", query,
         "\n\nInstructions:\n- Answer the question using ONLY the information provided in the context above\n- If the context doesn't contain the answer, say \"I don't have enough information to answer this question\"\n- Be concise and accurate\n\nAnswer:">>

\* lines 258-290
PromptV2(query, docs) ==
    <<"You are a precise policy assistant. Your task is to answer questions about company policies using ONLY the provided excerpts.\n\n<policy_excerpts>\n">>
    \o ContextV2(docs)
    \o <<"\n</policy_excerpts>\n\n<question>\n", query,
         "\n</question>\n\n<instructions>\n1. CAREFULLY read all excerpts\n2. ONLY use information explicitly stated in the excerpts\n3. If the answer requires information not in the excerpts, state this clearly\n4. Cite the excerpt ID and page number for each piece of information\n5. Use the structured format below\n</instructions>\n\n<output_format>\n**Policy Answer:**\n[Your answer here, with citations like (Excerpt 1, Page 5)]\n\n**",
         "Confidence:",
         "** [High/Medium/Low]\n- High: Answer fully supported by excerpts\n- Medium: Partial information available\n- Low: Insufficient information\n\n**",
         "Source:",
         "** [List excerpt IDs and page numbers used]\n\n**Note:** [Any important caveats or missing information]\n</output_format>\n\nPlease answer the question now:">>

\* lines 195-236: the answer, the calls of chat.completions.create and the
\* prompt sent (none without a client: the function returns at line 205)
generate_answer_v1(query, context_docs, completion) ==
    [answer |-> Generate(completion).answer,
     api_calls |-> Generate(completion).api_calls,
     prompt |-> IF Generate(completion).api_calls = 0 THEN << >>
                ELSE PromptV1(query, context_docs)]

\* lines 238-301
generate_answer_v2(query, context_docs, completion) ==
    [answer |-> Generate(completion).answer,
     api_calls |-> Generate(completion).api_calls,
     prompt |-> IF Generate(completion).api_calls = 0 THEN << >>
                ELSE PromptV2(query, context_docs)]

\* a dispatch that sends every version but 2 to template 1
UsesV1_AllButTwo(prompt_version) == prompt_version # 2

\* "if prompt_version == 1"
UsesV1(prompt_version) == prompt_version = 1

\* line 329
DocsOf(results) == [j \in 1..Len(results) |-> results[j].doc]

\* lines 333-336
GenerateFor(prompt_version, query, docs, completion) ==
    IF UsesV1(prompt_version) THEN generate_answer_v1(query, docs, completion)
    ELSE generate_answer_v2(query, docs, completion)

\* lines 319-352: the call's record, from what retrieve gave and what the
\* completion call does
AnswerFrom(query, top_k, prompt_version, got, completion) ==
    LET call == [NoCall EXCEPT !.op = "answer_question", !.query = query,
                               !.top_k = top_k, !.hits = got.hits,
                               !.results = got.results,
                               !.prompt_version = prompt_version]
    IN IF got.raised
       THEN [call EXCEPT !.raised = TRUE, !.error = got.error]
       ELSE IF Inadmissible(got.results)
       THEN [call EXCEPT !.response =
                [query |-> query, answer |-> CannedAnswer, context |-> << >>,
                 confidence |-> "low", retrieval_scores |-> << >>]]
       ELSE LET gen == GenerateFor(prompt_version, query, DocsOf(got.results), completion)
            IN [call EXCEPT
                   !.gen_v1 = IF UsesV1(prompt_version) THEN 1 ELSE 0,
                   !.gen_v2 = IF UsesV1(prompt_version) THEN 0 ELSE 1,
                   !.api_calls = gen.api_calls,
                   !.prompt = gen.prompt,
                   !.completion = IF gen.api_calls = 0 THEN NoCompletion ELSE completion,
                   !.response =
                      [query |-> query, answer |-> gen.answer,
                       context |-> ContextOf(got.results),
                       confidence |-> assess_confidence(ScoresOf(got.results)),
                       retrieval_scores |-> ScoresOf(got.results)]]

\* lines 303-352
answer_question(query, top_k, prompt_version, encodeOk, completion) ==
    /\ last' = AnswerFrom(query, top_k, prompt_version,
                          RetrieveOutcome(query, top_k, encodeOk), completion)
    /\ UNCHANGED <<documents, index, groq_client, chunkVars, evalVars>>

\* lines 134-153: a pipeline as constructed, with or without GROQ_API_KEY
PipeInit ==
    /\ documents = << >>
    /\ index = NoneIndex
    /\ groq_client \in BOOLEAN
    /\ last = NoCall

PipeIdle ==
    /\ documents = << >> /\ index = NoneIndex /\ groq_client = FALSE
    /\ last = NoCall

\* ------------------------------------------------ Evaluator

\* texts whose letter case matters are kept as sequences of characters
Uppers == <<"A", "B", "C", "D", "E", "F", "G", "H", "I", "J", "K", "L", "M", "N", "O", "P", "Q", "R", "S", "T", "U", "V", "W", "X", "Y", "Z">>
Lowers == <<"a", "b", "c", "d", "e", "f", "g", "h", "i", "j", "k", "l", "m", "n", "o", "p", "q", "r", "s", "t", "u", "v", "w", "x", "y", "z">>

\* str.lower(), one character
LowerChar(c) ==
    IF \E k \in 1..Len(Uppers) : Uppers[k] = c
    THEN Lowers[CHOOSE k \in 1..Len(Uppers) : Uppers[k] = c]
    ELSE c

\* str.lower()
Lower(str) == [k \in 1..Len(str) |-> LowerChar(str[k])]

\* "needle in hay"
Contains(hay, needle) ==
    \E k \in 1..(Len(hay) - Len(needle) + 1) : SubSeq(hay, k, k + Len(needle) - 1) = needle

\* line 387-390: the phrases looked for
IDontHave == <<"I", " ", "d", "o", "n", "'", "t", " ", "h", "a", "v", "e">>
NotFound == <<"n", "o", "t", " ", "f", "o", "u", "n", "d">>
CannotAnswer == <<"c", "a", "n", "n", "o", "t", " ", "a", "n", "s", "w", "e", "r">>
InsufficientInformation == <<"i", "n", "s", "u", "f", "f", "i", "c", "i", "e", "n", "t", " ", "i", "n", "f", "o", "r", "m", "a", "t", "i", "o", "n">>

\* line 401
PageWord == <<"P", "a", "g", "e">>
ExcerptWord == <<"E", "x", "c", "e", "r", "p", "t">>

\* answer texts given to evaluate_answer
AnswerTexts ==
    { <<"S", "e", "e", " ", "P", "a", "g", "e", " ", "3", ".">>,
      <<"s", "e", "e", " ", "p", "a", "g", "e", " ", "3", ".">>,
      <<"E", "x", "c", "e", "r", "p", "t", " ", "1", " ", "s", "a", "y", "s", " ", "s", "o", ".">>,
      <<"E", "X", "C", "E", "R", "P", "T", " ", "1">>,
      <<"P", "a", "g", "e", "s", " ", "2", "-", "3", " ", "(", "e", "x", "c", "e", "r", "p", "t", "s", ")">>,
      <<"i", "n", "s", "u", "f", "f", "i", "c", "i", "e", "n", "t", " ", "i", "n", "f", "o", "r", "m", "a", "t", "i", "o", "n">>,
      <<"I", "n", "s", "u", "f", "f", "i", "c", "i", "e", "n", "t", " ", "i", "n", "f", "o", "r", "m", "a", "t", "i", "o", "n">>,
      <<"N", "O", "T", " ", "F", "O", "U", "N", "D">>,
      <<"n", "o", "t", " ", "f", "o", "u", "n", "d", " ", "o", "n", " ", "P", "a", "g", "e", " ", "2">>,
      <<"I", " ", "c", "a", "n", "n", "o", "t", " ", "a", "n", "s", "w", "e", "r", ".">>,
      <<"C", "a", "n", "n", "o", "t", " ", "A", "n", "s", "w", "e", "r">>,
      <<"I", " ", "d", "o", "n", "'", "t", " ", "h", "a", "v", "e", " ", "i", "t", ".">>,
      <<"i", " ", "d", "o", "n", "'", "t", " ", "h", "a", "v", "e", " ", "i", "t", ".">>,
      <<"3", "0", " ", "d", "a", "y", "s", ".">> }

\* the responses given to evaluate_answer
Responses ==
    { [answer |-> a, confidence |-> c, context |-> << >>] :
        a \in AnswerTexts, c \in {"high", "low"} }

\* lines 386-393
admits_limitation(answer) ==
    \/ Contains(answer, IDontHave)
    \/ Contains(answer, NotFound)
    \/ Contains(answer, CannotAnswer)
    \/ Contains(answer, InsufficientInformation)

\* line 401
has_citations(answer) == Contains(answer, PageWord) \/ Contains(answer, ExcerptWord)

\* lines 396-408: None is kept as the string "None"
Evaluation(query, response, expected_info) ==
    [query |-> query, answer |-> response.answer,
     retrieval_confidence |-> response.confidence,
     admits_limitation |-> admits_limitation(response.answer),
     has_citations |-> has_citations(response.answer),
     context_used |-> Len(response.context),
     expected_info |-> expected_info,
     accuracy |-> "None", notes |-> ""]

\* lines 372-411
evaluate_answer(query, response, expected_info) ==
    /\ eval_results' = Append(eval_results, Evaluation(query, response, expected_info))
    /\ UNCHANGED <<chunkVars, pipeVars, demoVars>>

EvaluateAnswer ==
    /\ Len(eval_results) < MaxEvals
    /\ \E response \in Responses : evaluate_answer("q_refund", response, "None")

\* ------------------------------------------------ demo.main, interactive loop

\* line 150: ['quit', 'exit', 'q']
ExitCommands == { <<"q", "u", "i", "t">>, <<"e", "x", "i", "t">>, <<"q">> }

\* a test of the typed text as it is
IsExitCommand_CaseSensitive(typed) == typed \in ExitCommands

\* line 150: "query.lower() in ['quit', 'exit', 'q']"
IsExitCommand(typed) == Lower(typed) \in ExitCommands

\* the questions typed in the model
RefundQuestion == <<"r", "e", "f", "u", "n", "d", "?">>
TrackQuestion == <<"T", "r", "a", "c", "k">>
QuiteQuestion == <<"q", "u", "i", "t", "e">>

\* what input() gives: a line, an end of file or a keyboard interrupt
Inputs ==
    { [kind |-> "line", chars |-> c] :
        c \in { << >>, <<" ", " ", " ">>, <<"q", "u", "i", "t">>, <<"Q", "U", "I", "T">>, <<" ", "E", "x", "i", "t", " ">>,
                <<"q">>, <<"Q">>, <<"\t", " ">>,
                QuiteQuestion, RefundQuestion, <<" ", "T", "r", "a", "c", "k", " ">> } }
    \cup { [kind |-> "eof", chars |-> << >>], [kind |-> "interrupt", chars |-> << >>] }

\* the typed question as the text the pipeline model embeds
AsQuery(typed) ==
    IF typed = RefundQuestion THEN "q_refund"
    ELSE IF typed = TrackQuestion THEN "q_tracking"
    ELSE "q_weather"

\* line 162: top_k=3, prompt_version=2
DemoTopK == 3
DemoPromptVersion == 2

\* one more call of input()
Read(in) ==
    /\ dpc = "prompt"
    /\ prompts < MaxPrompts
    /\ line' = in
    /\ prompts' = prompts + 1

\* the loop is left and main returns
Leave(message) ==
    /\ dpc' = "exited"
    /\ shown' = message
    /\ exit_code' = 0

\* the loop goes on to the next input()
GoOn(message) ==
    /\ dpc' = "prompt"
    /\ shown' = message
    /\ exit_code' = exit_code

\* lines 150-152
MainLoopExit ==
    \E in \in Inputs :
        /\ in.kind = "line"
        /\ IsExitCommand(Strip(in.chars))
        /\ Read(in)
        /\ Leave("thank you")
        /\ UNCHANGED <<calls, chunkVars, pipeVars, evalVars>>

\* lines 155-157
MainLoopEmpty ==
    \E in \in Inputs :
        /\ in.kind = "line"
        /\ ~IsExitCommand(Strip(in.chars))
        /\ Strip(in.chars) = << >>
        /\ Read(in)
        /\ GoOn("please enter a question")
        /\ UNCHANGED <<calls, chunkVars, pipeVars, evalVars>>

\* lines 160-173 and 181-183: the question is answered, or the exception of
\* answer_question is printed
MainLoopAsk ==
    \E in \in Inputs, encodeOk \in BOOLEAN, completion \in Completions :
        /\ in.kind = "line"
        /\ ~IsExitCommand(Strip(in.chars))
        /\ Strip(in.chars) # << >>
        /\ Read(in)
        /\ calls' = calls + 1
        /\ answer_question(AsQuery(Strip(in.chars)), DemoTopK, DemoPromptVersion,
                           encodeOk, completion)
        /\ GoOn(IF last'.raised THEN "error" ELSE "answer")

\* lines 175-177: the interrupt comes at input(), or while the question typed
\* is being answered
MainLoopInterrupt ==
    \/ /\ Read([kind |-> "interrupt", chars |-> << >>])
       /\ Leave("interrupted")
       /\ UNCHANGED <<calls, chunkVars, pipeVars, evalVars>>
    \/ \E in \in Inputs :
        /\ in.kind = "line"
        /\ ~IsExitCommand(Strip(in.chars))
        /\ Strip(in.chars) # << >>
        /\ Read(in)
        /\ calls' = calls + 1
        /\ last' = [NoCall EXCEPT !.op = "answer_question", !.raised = TRUE,
                                  !.error = "KeyboardInterrupt",
                                  !.query = AsQuery(Strip(in.chars)),
                                  !.top_k = DemoTopK,
                                  !.prompt_version = DemoPromptVersion]
        /\ Leave("interrupted")
        /\ UNCHANGED <<documents, index, groq_client, chunkVars, evalVars>>

\* lines 178-180
MainLoopEOF ==
    /\ Read([kind |-> "eof", chars |-> << >>])
    /\ Leave("thank you")
    /\ UNCHANGED <<calls, chunkVars, pipeVars, evalVars>>

NextDemo ==
    \/ MainLoopExit
    \/ MainLoopEmpty
    \/ MainLoopAsk
    \/ MainLoopInterrupt
    \/ MainLoopEOF

\* Evaluator.__init__
EvalInit == eval_results = << >>

\* main is not running
DemoIdle ==
    /\ dpc = "idle" /\ line = NoInput /\ shown = "" /\ prompts = 0 /\ calls = 0
    /\ exit_code = -1

AddDocuments ==
    /\ \E docs \in DocLists, encodeOk \in BOOLEAN : add_documents(docs, encodeOk)
    /\ UNCHANGED demoVars

Retrieve ==
    /\ \E query \in Queries, top_k \in TopKs, encodeOk \in BOOLEAN :
          retrieve(query, top_k, encodeOk)
    /\ UNCHANGED demoVars

AnswerQuestion ==
    /\ \E query \in Queries, top_k \in TopKs, pv \in PromptVersions,
          encodeOk \in BOOLEAN, completion \in Completions :
            answer_question(query, top_k, pv, encodeOk, completion)
    /\ UNCHANGED demoVars

\* the record of a direct call of a generation method
GenerateCall(name, query, docs, completion, gen) ==
    [NoCall EXCEPT !.op = name, !.query = query, !.docs = docs,
                   !.gen_v1 = IF name = "generate_answer_v1" THEN 1 ELSE 0,
                   !.gen_v2 = IF name = "generate_answer_v2" THEN 1 ELSE 0,
                   !.api_calls = gen.api_calls, !.prompt = gen.prompt,
                   !.completion = IF gen.api_calls = 0 THEN NoCompletion ELSE completion,
                   !.response = [NoResponse EXCEPT !.answer = gen.answer]]

\* a direct call of generate_answer_v1
GenerateAnswerV1 ==
    \E query \in Queries, docs \in ContextLists, completion \in Completions :
        /\ last' = GenerateCall("generate_answer_v1", query, docs, completion,
                                generate_answer_v1(query, docs, completion))
        /\ UNCHANGED <<documents, index, groq_client, chunkVars, evalVars, demoVars>>

\* a direct call of generate_answer_v2
GenerateAnswerV2 ==
    \E query \in Queries, docs \in ContextLists, completion \in Completions :
        /\ last' = GenerateCall("generate_answer_v2", query, docs, completion,
                                generate_answer_v2(query, docs, completion))
        /\ UNCHANGED <<documents, index, groq_client, chunkVars, evalVars, demoVars>>

NextGenerate ==
    \/ GenerateAnswerV1
    \/ GenerateAnswerV2

\* a direct call of _assess_confidence
AssessConfidence ==
    \E scores \in UNION { [1..n -> 0..MaxDistance] : n \in 0..MaxScores } :
        /\ last' = [NoCall EXCEPT !.op = "_assess_confidence", !.scores = scores,
                                  !.response = [NoResponse EXCEPT
                                      !.confidence = assess_confidence(scores)]]
        /\ UNCHANGED <<documents, index, groq_client, chunkVars, evalVars, demoVars>>

Next ==
    \/ AddDocuments
    \/ Retrieve
    \/ AnswerQuestion

Init == PipeInit /\ ChunkIdle /\ EvalInit /\ DemoIdle

Spec == Init /\ [][Next]_vars

InitChunk == ChunkInit /\ PipeIdle /\ EvalInit /\ DemoIdle

SpecChunk == InitChunk /\ [][ChunkNext]_vars

\* every step of chunk_text changes its position or its iteration count
chunkProgress == <<cpc, i, iter>>

\* chunk_text has a step to take: it has not returned, and MaxIter does not cut
\* the while loop
ChunkCanStep ==
    \/ cpc \in {"call", "page"}
    \/ cpc = "window" /\ (start < Len(page_text) => iter < MaxIter)

\* a step of chunk_text, by what it does to chunkProgress alone
ChunkRuns ==
    /\ ChunkCanStep
    /\ cpc' \in {"page", "window", "done"}
    /\ i' \in {1, i, i + 2}
    /\ iter' \in {0, iter, iter + 1}

\* chunk_text runs on once called: the interpreter takes the next step of the
\* loops whenever there is one
SpecChunkFair == InitChunk /\ [][ChunkNext]_vars /\ WF_chunkProgress(ChunkRuns)

SpecScore == Init /\ [][AssessConfidence]_vars

SpecGenerate == Init /\ [][NextGenerate]_vars

InitEval == PipeIdle /\ ChunkIdle /\ EvalInit /\ DemoIdle

SpecEval == InitEval /\ [][EvaluateAnswer]_vars

\* lines 35-54 and 144: the loop is entered after add_documents has indexed a
\* non-empty chunk list
InitDemo ==
    /\ documents \in DocLists \ { << >> }
    /\ index = FlatIndex(EncodeAll(documents))
    /\ groq_client \in BOOLEAN
    /\ last = NoCall
    /\ ChunkIdle
    /\ EvalInit
    /\ dpc = "prompt" /\ line = NoInput /\ shown = "" /\ prompts = 0 /\ calls = 0
    /\ exit_code = -1

SpecDemo == InitDemo /\ [][NextDemo]_vars

\* ------------------------------------------------ the pipeline's claims

\* n/d as a distance of the model (in quarters)
Quarters(n, d) == (4 * n) \div d

Answered == last.op = "answer_question" /\ ~last.raised

\* the index holds exactly the embeddings of self.documents, in order
CorpusConsistent == ~index.none /\ index.vectors = EncodeAll(documents)

\* ---------------------------------------------------------------- C1
\* C1: when retrieve returns no result, or a best (first) distance over 1.5,
\* answer_question returns the canned response with empty context and
\* confidence "low", and calls neither generate_answer_v1 nor
\* generate_answer_v2 nor the Groq client.
C1_GateBlocksGeneration ==
    (Answered /\ (last.results = << >>
                  \/ last.results[1].distance > Quarters(3, 2))) =>
        /\ last.response = [query |-> last.query, answer |-> CannedAnswer,
                            context |-> << >>, confidence |-> "low",
                            retrieval_scores |-> << >>]
        /\ last.gen_v1 = 0 /\ last.gen_v2 = 0 /\ last.api_calls = 0

\* a query whose best distance is over 1.5, put to a pipeline that holds a
\* Groq client, and answered with the canned response
C1_Witness ==
    /\ Answered /\ groq_client
    /\ last.results # << >> /\ last.results[1].distance > Quarters(3, 2)
    /\ last.response.answer = CannedAnswer

\* ---------------------------------------------------------------- C2
\* C2: on a corpus of n >= 1 chunks, retrieve(query, top_k) returns at most
\* top_k results, every one the chunk at a position the search reported, and
\* exactly n results when n < top_k: the unfilled slots (position -1) are
\* dropped.
C2_RetrieveDropsUnfilled ==
    (last.op = "retrieve" /\ ~last.raised /\ CorpusConsistent /\ Len(documents) >= 1) =>
        /\ Len(last.results) <= last.top_k
        /\ Len(documents) < last.top_k => Len(last.results) = Len(documents)
        /\ \A j \in 1..Len(last.results) :
              \E r \in 1..Len(last.hits) :
                 /\ last.hits[r].idx >= 0
                 /\ last.results[j].doc = documents[last.hits[r].idx + 1]
                 /\ last.results[j].distance = last.hits[r].distance

\* ---------------------------------------------------------------- C3
\* C3: in every reachable pipeline state answer_question returns a response
\* object and propagates no exception (here: even when the embedding model
\* itself does not fail).
C3_AnswerNeverRaises ==
    (last.op = "answer_question" /\ last.error # "EncodeError") =>
        /\ ~last.raised
        /\ last.response.query = last.query
        /\ last.response.confidence \in {"high", "medium", "low"}

\* ---------------------------------------------------------------- C4
\* C4: add_documents either completes and replaces both the chunk list and the
\* index, or fails and leaves both as they were before the call (here: even
\* when the embedding model itself does not fail, and the call fails on an
\* empty list).
C4_AddIsAllOrNothing ==
    (last.op = "add_documents" /\ last.error # "EncodeError") =>
        IF last.raised
        THEN documents = last.old_documents /\ index = last.old_index
        ELSE documents = last.docs /\ index = FlatIndex(EncodeAll(last.docs))

\* ---------------------------------------------------------------- C5
\* C5: after any sequence of add_documents calls, whenever the index exists it
\* holds len(self.documents) vectors, and vector i is the embedding of
\* self.documents[i].text (here: even when the embedding model never fails).
C5_IndexMatchesDocuments ==
    (~index.none /\ last.error # "EncodeError") =>
        /\ Len(index.vectors) = Len(documents)
        /\ \A j \in 1..Len(documents) : index.vectors[j] = Encode(documents[j].text)

\* ---------------------------------------------------------------- C10
\* C10: _assess_confidence is decided by the first distance alone: "high"
\* below 0.5, "medium" from 0.5 and below 1.0, "low" from 1.0, and "low" for
\* the empty list.
C10_ConfidenceBuckets ==
    last.op = "_assess_confidence" =>
        LET sc == last.scores
            label == last.response.confidence
        IN /\ sc = << >> => label = "low"
           /\ sc # << >> =>
                 /\ sc[1] < Quarters(1, 2) => label = "high"
                 /\ (sc[1] >= Quarters(1, 2) /\ sc[1] < Quarters(1, 1)) => label = "medium"
                 /\ sc[1] >= Quarters(1, 1) => label = "low"

\* 0.5 first, with a smaller distance after it, scored "medium"
C10_Witness ==
    /\ last.op = "_assess_confidence"
    /\ last.scores = <<Quarters(1, 2), 0>>
    /\ last.response.confidence = "medium"

\* ---------------------------------------------------------------- C11
\* one of the two generation methods was called by answer_question
Generated == last.op = "answer_question" /\ last.gen_v1 + last.gen_v2 > 0

\* the label the first retrieval score alone gives
LabelOf(d) ==
    IF d < Quarters(1, 2) THEN "high" ELSE IF d < Quarters(1, 1) THEN "medium" ELSE "low"

\* C11: a generation method never raises. Without a client it returns the
\* "GROQ_API_KEY not set" message and makes no completion call; when the
\* completion call raises it returns "Error generating answer: <detail>". In
\* both cases answer_question returns the retrieved context, the retrieval
\* scores and the confidence of the first score, with that string as answer.
C11_GenerationFailuresDegrade ==
    Generated =>
        /\ ~last.raised
        /\ ~groq_client =>
              /\ last.response.answer = "Error: GROQ_API_KEY not set. Cannot generate answer."
              /\ last.api_calls = 0
        /\ (groq_client /\ ~last.completion.ok) =>
              last.response.answer = "Error generating answer: " \o last.completion.text
        /\ (~groq_client \/ ~last.completion.ok) =>
              /\ last.results # << >>
              /\ Len(last.response.context) = Len(last.results)
              /\ \A j \in 1..Len(last.results) :
                    /\ last.response.context[j].text = last.results[j].doc.text
                    /\ last.response.context[j].page = last.results[j].doc.page_num
                    /\ last.response.context[j].relevance_score = last.results[j].distance
              /\ last.response.retrieval_scores =
                    [j \in 1..Len(last.results) |-> last.results[j].distance]
              /\ last.response.confidence = LabelOf(last.results[1].distance)

\* a completion call that raised, reported in the answer next to the context
C11_Witness ==
    /\ Generated /\ groq_client /\ last.api_calls = 1
    /\ ~last.completion.ok
    /\ last.response.answer = "Error generating answer: Connection error."
    /\ Len(last.response.context) = 2
    /\ last.response.confidence = "medium"

\* the same without a client
C11_WitnessNoClient ==
    /\ Generated /\ ~groq_client /\ last.api_calls = 0
    /\ last.response.answer = "Error: GROQ_API_KEY not set. Cannot generate answer."
    /\ last.response.context # << >>

\* ---------------------------------------------------------------- C12
\* a generation method was called directly and sent a prompt
PromptSent ==
    /\ last.op \in {"generate_answer_v1", "generate_answer_v2"}
    /\ last.api_calls = 1

\* the chunks from rank j on appear in the prompt after piece `from`, in rank
\* order, each text preceded (after the previous chunk's text) by its rank and
\* then its page number
RECURSIVE Annotated(_, _, _, _)
Annotated(prompt, docs, j, from) ==
    \/ j > Len(docs)
    \/ \E p \in (from + 1)..Len(prompt) :
          /\ prompt[p] = docs[j].text
          /\ \E a \in (from + 1)..(p - 1), b \in (from + 1)..(p - 1) :
                /\ a < b
                /\ prompt[a] = ToString(j)
                /\ prompt[b] = ToString(docs[j].page_num)
          /\ Annotated(prompt, docs, j + 1, p)

HasPiece(prompt, piece) == \E p \in 1..Len(prompt) : prompt[p] = piece

\* C12: for every query and ranked chunk list, the prompt of each template
\* holds every chunk's text, each annotated with its rank and its page_num, in
\* rank order, and holds the query; the prompt of template 2 also holds the
\* labels "Confidence:" and "Source:".
C12_PromptHoldsRankedChunks ==
    PromptSent =>
        /\ Annotated(last.prompt, last.docs, 1, 0)
        /\ HasPiece(last.prompt, last.query)
        /\ last.op = "generate_answer_v2" =>
              /\ HasPiece(last.prompt, "Confidence:")
              /\ HasPiece(last.prompt, "Source:")

\* template 1 given three chunks whose pages differ from their ranks
C12_Witness ==
    /\ PromptSent /\ last.op = "generate_answer_v1"
    /\ Len(last.docs) = 3
    /\ last.docs[1].page_num = 3 /\ last.docs[2].page_num = 1 /\ last.docs[3].page_num = 2
    /\ Annotated(last.prompt, last.docs, 1, 0)

\* template 2 given two chunks
C12_WitnessV2 ==
    /\ PromptSent /\ last.op = "generate_answer_v2"
    /\ Len(last.docs) = 2 /\ last.docs[1].page_num = 2
    /\ HasPiece(last.prompt, "Source:")

\* ---------------------------------------------------------------- C16
\* the smallest distance among the retrieved results
BestDistance(results) ==
    CHOOSE d \in { results[j].distance : j \in 1..Len(results) } :
        \A j \in 1..Len(results) : d <= results[j].distance

\* the gate of answer_question let the query through
Admitted ==
    /\ last.results # << >>
    /\ last.results[1].distance <= Quarters(3, 2)

C13_EvaluationHeuristics ==
    \A k \in 1..Len(eval_results) :
        LET e == eval_results[k]
        IN /\ e.has_citations <=>
                 (Contains(e.answer, PageWord) \/ Contains(e.answer, ExcerptWord))
           /\ e.admits_limitation <=>
                 \E phrase \in {InsufficientInformation, NotFound, CannotAnswer, IDontHave} :
                     Contains(Lower(e.answer), Lower(phrase))
           /\ e.accuracy = "None"

\* ---------------------------------------------------------------- C14
\* C14: in every pass of the interactive loop of demo.main: an input that is
\* empty after stripping makes no call of answer_question and the loop prompts
\* again; quit, exit or q in any letter case, an end of file or a keyboard
\* interrupt ends the loop and main returns (exit status 0); an exception that
\* answer_question raises for a non-empty question is reported and the loop
\* prompts again.
C14_LoopHandlesInputs ==
    [][ prompts' = prompts + 1 =>
          LET typed == Strip(line'.chars)
              quits == Lower(typed) \in ExitCommands
          IN /\ dpc = "prompt"
             /\ (line'.kind = "line" /\ typed = << >>) =>
                   /\ calls' = calls /\ last' = last
                   /\ dpc' = "prompt" /\ exit_code' = -1
             /\ (line'.kind \in {"eof", "interrupt"} \/ (line'.kind = "line" /\ quits)) =>
                   /\ calls' = calls
                   /\ dpc' = "exited" /\ exit_code' = 0
             /\ (line'.kind = "line" /\ typed # << >> /\ ~quits) =>
                   /\ calls' = calls + 1
                   /\ last'.op = "answer_question"
                   /\ (last'.raised /\ last'.error # "KeyboardInterrupt") =>
                         /\ shown' = "error"
                         /\ dpc' = "prompt" /\ exit_code' = -1
                   /\ last'.error = "KeyboardInterrupt" =>
                         dpc' = "exited" /\ exit_code' = 0
      ]_vars

\* an empty input, a question whose answer_question raised, then " Exit ":
\* one call made, the error reported, and main returned
C14_Witness ==
    /\ prompts = 3 /\ calls = 1
    /\ last.op = "answer_question" /\ last.raised /\ last.error # "KeyboardInterrupt"
    /\ line = [kind |-> "line", chars |-> <<" ", "E", "x", "i", "t", " ">>]
    /\ dpc = "exited" /\ exit_code = 0

\* ---------------------------------------------------------------- C15
\* some marker-tagged page of the text has non-empty cleaned text
HasNonEmptyPage ==
    \E k \in 1..(Len(re_split(text)) - 1) :
        k % 2 = 1 /\ PageTextOf(re_split(text), k) # << >>

\* C15: chunk_text returns on every text when chunk_size > overlap, the window
\* start growing on each iteration; when overlap >= chunk_size and a page has
\* non-empty cleaned text it never returns, the window start never passing
\* the end of the page; parameters of both kinds are accepted.
C15_TerminatesIffWindowAdvances ==
    /\ (chunk_size > overlap) => <>ChunkDone
    /\ [][(chunk_size > overlap /\ iter' = iter + 1) => start' > start]_vars
    /\ []((overlap >= chunk_size /\ HasNonEmptyPage) =>
             /\ ~ChunkDone
             /\ (cpc = "window" /\ page_text # << >>) => start < Len(page_text))

\* overlap over chunk_size on a non-empty page: after MaxIter iterations the
\* window start has moved backwards and the loop condition still holds
C15_Witness ==
    /\ overlap > chunk_size /\ HasNonEmptyPage
    /\ cpc = "window" /\ iter = MaxIter
    /\ start = MaxIter * (chunk_size - overlap)
    /\ start < Len(page_text)
    /\ chunks # << >>

=============================================================================
